---- MODULE Spec2Model ----
(***************************************************************************)
(* Model of scripts/add-client.py: the peer-enrollment pipeline of the     *)
(* AmneziaWG gateway.  Every process of Procs is one invocation of the     *)
(* script (one enrollment).  The shared state is what the script keeps on  *)
(* disk (server.conf, server.keys, the clients/ tree), the flock() on      *)
(* .add-client.lock and the peers of the running interface.                *)
(***************************************************************************)
EXTENDS Integers, Sequences, FiniteSets, TLC

(* ------------------------------ bounds --------------------------------- *)

\* number of invocations of the script that may run (concurrently); they are
\* numbered in the order they begin
NumProcs == 2

\* largest host number of a peer record already present before the first run
MaxInitHost == 3

Procs == 1..NumProcs

\* client names given on the command line
Names == {"alice", "bob"}

(* ----------------------- values found on disk -------------------------- *)

\* len(key) the script insists on (lines 99, 102, 105, 131)
KeyLen == 44

\* lengths the output of an awg key command may have: right, or one short
KeyLens == {KeyLen - 1, KeyLen}

\* the tunnel prefix of the Address line, e.g. "10.0.0" of 10.0.0.1/24
Network == "10.0.0"

NoMatch == "no-match"
NoIp == 0

\* a key is the text awg printed: who asked for it, which command, its length
Key(gen, kind, len) == [gen |-> gen, kind |-> kind, len |-> len]

\* no key: an unset variable, a missing key file
NoKey == Key(0, "none", 0)

\* the [Peer] block written to server.conf (lines 194-200)
PeerBlock(name, public, psk, network, host) ==
    [name |-> name, PublicKey |-> public, PresharedKey |-> psk,
     AllowedIPs |-> [network |-> network, host |-> host]]

\* AllowedIPs = 0.0.0.0/0, ::/0 (line 184)
CatchAll == [network |-> "0.0.0.0/0, ::/0", host |-> NoIp]

\* lines 150-155: the names obf_params holds, each with its default
ObfDefault ==
    [Jc |-> 4, Jmin |-> 50, Jmax |-> 1000,
     S1 |-> 0, S2 |-> 0, S3 |-> 0, S4 |-> 0,
     H1 |-> 1, H2 |-> 2, H3 |-> 3, H4 |-> 4,
     I1 |-> 0, I2 |-> 0, I3 |-> 0, I4 |-> 0, I5 |-> 0]

ObfNames == DOMAIN ObfDefault

\* lines 168-178: the names the template of the client document has a line
\* for
RenderedNames ==
    {"Jc", "Jmin", "Jmax", "S1", "S2", "S3", "S4", "H1", "H2", "H3", "H4"}

\* a server.conf without any `<param> = <digits>` line
NoObf == [n \in {} |-> 0]

\* lines 157-160: the value of each line found replaces the default
ObfParams(obf) ==
    [n \in ObfNames |-> IF n \in DOMAIN obf THEN obf[n] ELSE ObfDefault[n]]

\* ClientConfig with server_public and preshared exchanged (lines 181-182)
ClientConfigSwapped(private, network, host, obf_params, srv_public, psk) ==
    [written |-> TRUE,
     Interface |-> [PrivateKey |-> private,
                    Address |-> [network |-> network, host |-> host],
                    Obf |-> [n \in RenderedNames |-> obf_params[n]]],
     Peer |-> [PublicKey |-> psk, PresharedKey |-> srv_public,
               AllowedIPs |-> CatchAll]]

\* the client configuration document (lines 163-186): the fields of the
\* [Interface] block that vary, and the [Peer] block
ClientConfig(private, network, host, obf_params, srv_public, psk) ==
    [written |-> TRUE,
     Interface |-> [PrivateKey |-> private,
                    Address |-> [network |-> network, host |-> host],
                    Obf |-> [n \in RenderedNames |-> obf_params[n]]],
     Peer |-> [PublicKey |-> srv_public, PresharedKey |-> psk,
               AllowedIPs |-> CatchAll]]

\* <name>.conf not written
NoClientConfig ==
    [written |-> FALSE,
     Interface |-> [PrivateKey |-> NoKey,
                    Address |-> [network |-> NoMatch, host |-> NoIp],
                    Obf |-> [n \in RenderedNames |-> 0]],
     Peer |-> [PublicKey |-> NoKey, PresharedKey |-> NoKey,
               AllowedIPs |-> CatchAll]]

\* clients/<name> absent
NoDir == [exists |-> FALSE, privatekey |-> NoKey, publickey |-> NoKey,
          presharedkey |-> NoKey, conf |-> NoClientConfig]

\* a peer record that was in server.conf before the first invocation
OldPeer(h) ==
    PeerBlock("old", Key(0, "pubkey", KeyLen), Key(0, "genpsk", KeyLen), Network, h)

\* the peer sections server.conf may start with, given by their host
\* numbers in file order: none, one peer, or peer 2 and a later one
InitHosts ==
    {<< >>} \cup {<<h>> : h \in 2..MaxInitHost}
            \cup {<<2, h>> : h \in 3..MaxInitHost}

InitPeers == {[i \in 1..Len(hs) |-> OldPeer(hs[i])] : hs \in InitHosts}

(* ------------------------------ state ---------------------------------- *)

VARIABLES
    server_conf,     \* server.conf: exists, Address prefix, PrivateKey, peers
    server_keys,     \* PUBLIC_KEY of server.keys, or NoKey
    clients,         \* clients/<name>: NoDir, or the files of the directory
    lock_file,       \* .add-client.lock exists
    lock,            \* the processes holding flock(.add-client.lock, LOCK_EX)
    live_peers,      \* peers added to the running interface by awg addconf
    pc,              \* position of each invocation in main()
    client_name,     \* sys.argv[1]
    conf_read,       \* server_conf as read at line 61 (local copy)
    vpn_network,     \* address_match.group(1)
    client_ip_num,   \* the allocated host number
    client_private, client_public, preshared, server_public,
    active_interface,
    addconf_rc,      \* return code of `awg addconf` (0 when not run)
    error,           \* the diagnostic the invocation ended with
    exit_code,       \* exit status of the process (0 while running)
    conf0,           \* history: server_conf before the first invocation
    dir_at_start,    \* history: clients/<name> existed when the run began
    appended,        \* history: the run has appended its peer block
    released         \* history: the runs that held the lock, in the order
                     \* they released it: process, exit status, address,
                     \* whether it appended its peer block

shared == <<server_conf, server_keys, clients, lock_file, lock, live_peers>>
locals == <<pc, client_name, conf_read, vpn_network, client_ip_num,
            client_private, client_public, preshared, server_public,
            active_interface, addconf_rc, error, exit_code>>
keys_l == <<client_private, client_public, preshared, server_public>>
alloc_l == <<conf_read, vpn_network, client_ip_num>>
sync_l == <<active_interface, addconf_rc>>
history == <<conf0, dir_at_start, appended, released>>
vars == <<shared, locals, history>>

NoConf == [exists |-> FALSE, network |-> NoMatch, mask |-> 0,
           private_key |-> FALSE, obf |-> NoObf, peers |-> << >>]

\* the configuration found: none, a usable one of a /24 tunnel with the
\* server.keys written with it, or one lacking server.keys, the Address line
\* or the PrivateKey line
InitConf ==
    \/ /\ server_conf = NoConf
       /\ server_keys = NoKey
    \/ /\ server_conf \in [exists : {TRUE}, network : {Network}, mask : {24},
                           private_key : {TRUE}, obf : {NoObf},
                           peers : InitPeers]
       /\ server_keys = Key(0, "server", KeyLen)
    \/ /\ server_conf \in
             [exists : {TRUE}, network : {Network, NoMatch}, mask : {24},
              private_key : BOOLEAN, obf : {NoObf}, peers : {<< >>}]
       /\ server_keys = NoKey

\* no invocation has begun
InitRun ==
    /\ clients = [n \in Names |-> NoDir]
    /\ lock_file = FALSE
    /\ lock = {}
    /\ live_peers = {}
    /\ pc = [p \in Procs |-> "start"]
    /\ client_name = [p \in Procs |-> ""]
    /\ conf_read = [p \in Procs |-> NoConf]
    /\ vpn_network = [p \in Procs |-> NoMatch]
    /\ client_ip_num = [p \in Procs |-> NoIp]
    /\ client_private = [p \in Procs |-> NoKey]
    /\ client_public = [p \in Procs |-> NoKey]
    /\ preshared = [p \in Procs |-> NoKey]
    /\ server_public = [p \in Procs |-> NoKey]
    /\ active_interface = [p \in Procs |-> ""]
    /\ addconf_rc = [p \in Procs |-> 0]
    /\ error = [p \in Procs |-> "none"]
    /\ exit_code = [p \in Procs |-> 0]
    /\ conf0 = server_conf
    /\ dir_at_start = [p \in Procs |-> FALSE]
    /\ appended = [p \in Procs |-> FALSE]
    /\ released = << >>

Init == InitConf /\ InitRun

(* --------------------------- ways of ending ---------------------------- *)

\* sys.exit(1) before the try block (lines 40, 45): the process is gone
ExitEarly(p, why) ==
    /\ pc' = [pc EXCEPT ![p] = "exited"]
    /\ error' = [error EXCEPT ![p] = why]
    /\ exit_code' = [exit_code EXCEPT ![p] = 1]

\* Fail without the try/finally of lines 53 and 239: the process ends at once
FailNoFinally(p, why) ==
    /\ pc' = [pc EXCEPT ![p] = "exited"]
    /\ error' = [error EXCEPT ![p] = why]
    /\ exit_code' = [exit_code EXCEPT ![p] = 1]

\* sys.exit(1) or an uncaught exception inside the try block: control goes
\* to the finally clause (line 239), the exit status is already decided
Fail(p, why) ==
    /\ pc' = [pc EXCEPT ![p] = "finally"]
    /\ error' = [error EXCEPT ![p] = why]
    /\ exit_code' = [exit_code EXCEPT ![p] = 1]

Goto(p, where) ==
    /\ pc' = [pc EXCEPT ![p] = where]
    /\ UNCHANGED <<error, exit_code>>

(* ---------------------- before the lock (28-52) ------------------------ *)

\* CheckInitialized without the test of line 37
CheckInitializedSkip(p) ==
    /\ pc[p] = "start"
    /\ \A q \in Procs : q < p => pc[q] # "start"
    /\ \E n \in Names :
          /\ client_name' = [client_name EXCEPT ![p] = n]
          /\ dir_at_start' = [dir_at_start EXCEPT ![p] = clients[n].exists]
    /\ Goto(p, "check_client")
    /\ UNCHANGED <<shared, conf_read, vpn_network, client_ip_num,
                   client_private, client_public, preshared, server_public,
                   active_interface, addconf_rc, conf0, appended, released>>

\* lines 28-40: the invocation with its client name; server.conf must exist
CheckInitialized(p) ==
    /\ pc[p] = "start"
    /\ \A q \in Procs : q < p => pc[q] # "start"
    /\ \E n \in Names :
          /\ client_name' = [client_name EXCEPT ![p] = n]
          /\ dir_at_start' = [dir_at_start EXCEPT ![p] = clients[n].exists]
    /\ IF ~server_conf.exists
         THEN ExitEarly(p, "NotInitializedError")
         ELSE Goto(p, "check_client")
    /\ UNCHANGED <<shared, conf_read, vpn_network, client_ip_num,
                   client_private, client_public, preshared, server_public,
                   active_interface, addconf_rc, conf0, appended, released>>

\* CheckClientExists without the test of line 43
CheckClientExistsSkip(p) ==
    /\ pc[p] = "check_client"
    /\ Goto(p, "flock")
    /\ lock_file' = TRUE
    /\ UNCHANGED <<server_conf, server_keys, clients, lock, live_peers,
                   client_name, conf_read, vpn_network, client_ip_num,
                   client_private, client_public, preshared, server_public,
                   active_interface, addconf_rc, history>>

\* lines 42-52: the client directory must not exist yet; then the lock file
\* is opened for writing, which creates it
CheckClientExists(p) ==
    /\ pc[p] = "check_client"
    /\ IF clients[client_name[p]].exists
         THEN /\ ExitEarly(p, "DuplicateClientError")
              /\ UNCHANGED lock_file
         ELSE /\ Goto(p, "flock")
              /\ lock_file' = TRUE
    /\ UNCHANGED <<server_conf, server_keys, clients, lock, live_peers,
                   client_name, conf_read, vpn_network, client_ip_num,
                   client_private, client_public, preshared, server_public,
                   active_interface, addconf_rc, history>>

(* ------------------ the lock (LockCoordinator, 54) --------------------- *)

\* AcquireLock with LOCK_EX | LOCK_NB and the error ignored: it does not wait
AcquireLockNoWait(p) ==
    /\ pc[p] = "flock"
    /\ lock' = lock \cup {p}
    /\ Goto(p, "mkdir")
    /\ UNCHANGED <<server_conf, server_keys, clients, lock_file, live_peers,
                   client_name, alloc_l, keys_l, sync_l, history>>

\* line 54: flock(LOCK_EX) returns once no other open file description
\* holds the lock
AcquireLock(p) ==
    /\ pc[p] = "flock"
    /\ lock = {}
    /\ lock' = lock \cup {p}
    /\ Goto(p, "mkdir")
    /\ UNCHANGED <<server_conf, server_keys, clients, lock_file, live_peers,
                   client_name, alloc_l, keys_l, sync_l, history>>

\* lines 239-241, then the process ends with the status decided before; its
\* memory is gone; its command line, what it printed and its exit status stay
ReleaseLock(p) ==
    /\ pc[p] = "finally"
    /\ lock' = lock \ {p}
    /\ pc' = [pc EXCEPT ![p] = "exited"]
    /\ released' = Append(released, [proc |-> p, code |-> exit_code[p],
                                     host |-> client_ip_num[p],
                                     appended |-> appended[p]])
    /\ conf_read' = [conf_read EXCEPT ![p] = NoConf]
    /\ vpn_network' = [vpn_network EXCEPT ![p] = NoMatch]
    /\ client_ip_num' = [client_ip_num EXCEPT ![p] = NoIp]
    /\ client_private' = [client_private EXCEPT ![p] = NoKey]
    /\ client_public' = [client_public EXCEPT ![p] = NoKey]
    /\ preshared' = [preshared EXCEPT ![p] = NoKey]
    /\ server_public' = [server_public EXCEPT ![p] = NoKey]
    /\ active_interface' = [active_interface EXCEPT ![p] = ""]
    /\ appended' = [appended EXCEPT ![p] = FALSE]
    /\ UNCHANGED <<server_conf, server_keys, clients, lock_file, live_peers,
                   client_name, addconf_rc, error, exit_code,
                   conf0, dir_at_start>>

\* Crash with the lock kept in a file instead of held on a descriptor
CrashHoldingLock(p) ==
    /\ p \in lock
    /\ pc' = [pc EXCEPT ![p] = "crashed"]
    /\ conf_read' = [conf_read EXCEPT ![p] = NoConf]
    /\ vpn_network' = [vpn_network EXCEPT ![p] = NoMatch]
    /\ client_ip_num' = [client_ip_num EXCEPT ![p] = NoIp]
    /\ client_private' = [client_private EXCEPT ![p] = NoKey]
    /\ client_public' = [client_public EXCEPT ![p] = NoKey]
    /\ preshared' = [preshared EXCEPT ![p] = NoKey]
    /\ server_public' = [server_public EXCEPT ![p] = NoKey]
    /\ active_interface' = [active_interface EXCEPT ![p] = ""]
    /\ UNCHANGED <<server_conf, server_keys, clients, lock_file, lock,
                   live_peers, client_name, addconf_rc, error, exit_code,
                   history>>

\* lines 52-54: the lock is an flock on the descriptor lock_fd of this
\* process. When the process is killed anywhere between line 54 and line
\* 241 the finally clause does not run; the kernel closes lock_fd and the
\* flock goes with it. The files written so far stay, the memory is gone.
Crash(p) ==
    /\ p \in lock
    /\ lock' = lock \ {p}
    /\ pc' = [pc EXCEPT ![p] = "crashed"]
    /\ conf_read' = [conf_read EXCEPT ![p] = NoConf]
    /\ vpn_network' = [vpn_network EXCEPT ![p] = NoMatch]
    /\ client_ip_num' = [client_ip_num EXCEPT ![p] = NoIp]
    /\ client_private' = [client_private EXCEPT ![p] = NoKey]
    /\ client_public' = [client_public EXCEPT ![p] = NoKey]
    /\ preshared' = [preshared EXCEPT ![p] = NoKey]
    /\ server_public' = [server_public EXCEPT ![p] = NoKey]
    /\ active_interface' = [active_interface EXCEPT ![p] = ""]
    /\ UNCHANGED <<server_conf, server_keys, clients, lock_file, live_peers,
                   client_name, addconf_rc, error, exit_code, history>>

(* ------------- config read and address allocation (56-81) -------------- *)

\* MakeClientDir with the directory left to be created by a later step
MakeClientDirNoop(p) ==
    /\ pc[p] = "mkdir"
    /\ Goto(p, "read_conf")
    /\ UNCHANGED <<server_conf, server_keys, clients, lock_file, lock,
                   live_peers, client_name, alloc_l, keys_l, sync_l, history>>

\* line 57: os.makedirs(client_dir, mode=0o700, exist_ok=True): an existing
\* directory is accepted as it is
MakeClientDir(p) ==
    /\ pc[p] = "mkdir"
    /\ clients' = [clients EXCEPT ![client_name[p]].exists = TRUE]
    /\ Goto(p, "read_conf")
    /\ UNCHANGED <<server_conf, server_keys, lock_file, lock, live_peers,
                   client_name, alloc_l, keys_l, sync_l, history>>

Max(S) == CHOOSE x \in S : \A y \in S : y <= x

\* ExistingIps with the pattern of line 73 not tied to vpn_network
ExistingIpsAnyNetwork(conf, network) ==
    {conf.peers[i].AllowedIPs.host : i \in 1..Len(conf.peers)}

\* line 73: the host numbers of the AllowedIPs = <vpn_network>.<n>/32 lines
ExistingIps(conf, network) ==
    {conf.peers[i].AllowedIPs.host :
        i \in {j \in 1..Len(conf.peers) :
                  conf.peers[j].AllowedIPs.network = network}}

\* NextIpNum without the + 1 of line 76
NextIpNumNoIncrement(existing_ips) ==
    IF existing_ips # {}
      THEN LET last_ip == Max(existing_ips)
           IN  Max({last_ip, 2})
      ELSE 2

\* NextIpNum starting at host number 1 (lines 76 and 78)
NextIpNumFromOne(existing_ips) ==
    IF existing_ips # {}
      THEN LET last_ip == Max(existing_ips)
           IN  Max({last_ip + 1, 1})
      ELSE 1

\* NextIpNum with + 2 at line 76
NextIpNumSkip(existing_ips) ==
    IF existing_ips # {}
      THEN LET last_ip == Max(existing_ips)
           IN  Max({last_ip + 2, 2})
      ELSE 2

\* lines 74-78 (AddressAllocator.nextAddress)
NextIpNum(existing_ips) ==
    IF existing_ips # {}
      THEN LET last_ip == Max(existing_ips)
           IN  Max({last_ip + 1, 2})
      ELSE 2

\* lines 59-81: read server.conf, match the Address line, allocate
ReadServerConfig(p) ==
    /\ pc[p] = "read_conf"
    /\ conf_read' = [conf_read EXCEPT ![p] = server_conf]
    /\ IF server_conf.network = NoMatch
         THEN /\ Fail(p, "ParseError")
              /\ UNCHANGED <<vpn_network, client_ip_num>>
         ELSE /\ vpn_network' = [vpn_network EXCEPT ![p] = server_conf.network]
              /\ client_ip_num' =
                    [client_ip_num EXCEPT ![p] =
                        NextIpNum(ExistingIps(server_conf, server_conf.network))]
              /\ Goto(p, "genkeys")
    /\ UNCHANGED <<shared, client_name, keys_l, sync_l, history>>

(* ------------------ key material (KeyMaterialProvider) ----------------- *)

\* lines 83-96: awg genkey, awg pubkey with the private key on stdin, awg
\* genpsk.  run_cmd_with_input exits on a non-zero return code (lines
\* 17-20), else returns the stripped output, of whatever length
GenerateKeys(p) ==
    /\ pc[p] = "genkeys"
    /\ \/ /\ Fail(p, "CommandFailed")
          /\ UNCHANGED <<client_private, client_public, preshared>>
       \/ \E l1 \in KeyLens, l2 \in KeyLens, l3 \in KeyLens :
             /\ client_private' =
                   [client_private EXCEPT ![p] = Key(p, "genkey", l1)]
             /\ client_public' =
                   [client_public EXCEPT ![p] = Key(p, "pubkey", l2)]
             /\ preshared' = [preshared EXCEPT ![p] = Key(p, "genpsk", l3)]
             /\ Goto(p, "validate")
    /\ UNCHANGED <<shared, client_name, alloc_l, server_public, sync_l,
                   history>>

\* KeysValid without the test of line 105
KeysValidNoPsk(private, public, psk) ==
    /\ private.len = KeyLen
    /\ public.len = KeyLen

\* the three conditions of lines 99, 102, 105
KeysValid(private, public, psk) ==
    /\ private.len = KeyLen
    /\ public.len = KeyLen
    /\ psk.len = KeyLen

\* lines 98-107
ValidateKeys(p) ==
    /\ pc[p] = "validate"
    /\ IF KeysValid(client_private[p], client_public[p], preshared[p])
         THEN Goto(p, "save_keys")
         ELSE Fail(p, "KeyFormatError")
    /\ UNCHANGED <<shared, client_name, alloc_l, keys_l, sync_l, history>>

(* -------------------- the client bundle (109-191) ---------------------- *)

\* the directory after the first k of the three key files are written
WithKeyFiles(dir, k, private, public, psk) ==
    [dir EXCEPT !.privatekey = IF k >= 1 THEN private ELSE @,
                !.publickey = IF k >= 2 THEN public ELSE @,
                !.presharedkey = IF k >= 3 THEN psk ELSE @]

\* lines 109-119: the three key files; an OSError may end it after any of
\* the writes
SaveKeys(p) ==
    /\ pc[p] = "save_keys"
    /\ \E k \in 0..3 :
          /\ clients' = [clients EXCEPT ![client_name[p]] =
                            WithKeyFiles(@, k, client_private[p],
                                         client_public[p], preshared[p])]
          /\ IF k = 3 THEN Goto(p, "server_public") ELSE Fail(p, "IOError")
    /\ UNCHANGED <<server_conf, server_keys, lock_file, lock, live_peers,
                   client_name, alloc_l, keys_l, sync_l, history>>

\* lines 121-141: PUBLIC_KEY of server.keys; when it is missing or not of
\* length 44, awg pubkey of the PrivateKey found in the configuration read
GetServerPublic(p) ==
    /\ pc[p] = "server_public"
    /\ IF server_keys # NoKey /\ server_keys.len = KeyLen
         THEN /\ server_public' = [server_public EXCEPT ![p] = server_keys]
              /\ Goto(p, "write_conf")
         ELSE IF ~conf_read[p].private_key
           THEN /\ Fail(p, "ParseError")
                /\ UNCHANGED server_public
           ELSE \/ /\ Fail(p, "CommandFailed")
                   /\ UNCHANGED server_public
                \/ \E len \in KeyLens :
                      /\ server_public' =
                            [server_public EXCEPT ![p] = Key(0, "pubkey", len)]
                      /\ Goto(p, "write_conf")
    /\ UNCHANGED <<shared, client_name, alloc_l, client_private, client_public,
                   preshared, sync_l, history>>

\* lines 143-191: render <name>.conf and write it
WriteClientConfig(p) ==
    /\ pc[p] = "write_conf"
    /\ \/ /\ clients' = [clients EXCEPT ![client_name[p]].conf =
                            ClientConfig(client_private[p], vpn_network[p],
                                         client_ip_num[p],
                                         ObfParams(conf_read[p].obf),
                                         server_public[p], preshared[p])]
          /\ Goto(p, "append_peer")
       \/ /\ Fail(p, "IOError")
          /\ UNCHANGED clients
    /\ UNCHANGED <<server_conf, server_keys, lock_file, lock, live_peers,
                   client_name, alloc_l, keys_l, sync_l, history>>

(* ------------------ ConfigRepository.appendPeer (193-202) -------------- *)

\* the peer_config of lines 194-200
PeerConfig(p) ==
    PeerBlock(client_name[p], client_public[p], preshared[p],
              vpn_network[p], client_ip_num[p])

\* AppendedConf with the file opened 'w' instead of 'a'
AppendedConfRewrite(conf, peer) == [conf EXCEPT !.peers = <<peer>>]

\* lines 201-202: open(server_config, 'a') and write
AppendedConf(conf, peer) == [conf EXCEPT !.peers = Append(@, peer)]

AppendPeer(p) ==
    /\ pc[p] = "append_peer"
    /\ \/ /\ server_conf' = AppendedConf(server_conf, PeerConfig(p))
          /\ appended' = [appended EXCEPT ![p] = TRUE]
          /\ Goto(p, "probe")
       \/ /\ Fail(p, "IOError")
          /\ UNCHANGED <<server_conf, appended>>
    /\ UNCHANGED <<server_keys, clients, lock_file, lock, live_peers,
                   client_name, alloc_l, keys_l, sync_l,
                   conf0, dir_at_start, released>>

(* ------------------------ LiveInterfaceSync (204-237) ------------------ *)

\* lines 207-222: `ip link show $INTERFACE` (awg0 when unset); "server" is
\* used when it fails, whatever the second probe or an exception says
ProbeInterface(p) ==
    /\ pc[p] = "probe"
    /\ \E env_interface_up \in BOOLEAN :
          active_interface' =
             [active_interface EXCEPT ![p] =
                 IF env_interface_up THEN "awg0" ELSE "server"]
    /\ Goto(p, "addconf")
    /\ UNCHANGED <<shared, client_name, alloc_l, keys_l, addconf_rc, history>>

\* AfterAddConf with check=True at line 231
AfterAddConfChecked(p, rc) ==
    IF rc = 0
      THEN /\ pc' = [pc EXCEPT ![p] = "finally"]
           /\ UNCHANGED <<error, exit_code>>
      ELSE Fail(p, "CommandFailed")

\* what main() does with the return code of awg addconf: check=False, so
\* nothing; the exit status is 0 either way
AfterAddConf(p, rc) ==
    /\ pc' = [pc EXCEPT ![p] = "finally"]
    /\ UNCHANGED <<error, exit_code>>

\* lines 224-237: the temporary peer file, awg addconf, the success message
AddConf(p) ==
    /\ pc[p] = "addconf"
    /\ \/ \E rc \in {0, 1} :
             /\ addconf_rc' = [addconf_rc EXCEPT ![p] = rc]
             /\ live_peers' = IF rc = 0
                                THEN live_peers \cup {PeerConfig(p)}
                                ELSE live_peers
             /\ AfterAddConf(p, rc)
       \/ /\ Fail(p, "IOError")
          /\ UNCHANGED <<addconf_rc, live_peers>>
    /\ UNCHANGED <<server_conf, server_keys, clients, lock_file, lock,
                   client_name, alloc_l, keys_l, active_interface, history>>

(* --------------------------- specification ----------------------------- *)

Step(p) ==
    \/ CheckInitialized(p)
    \/ CheckClientExists(p)
    \/ AcquireLock(p)
    \/ MakeClientDir(p)
    \/ ReadServerConfig(p)
    \/ GenerateKeys(p)
    \/ ValidateKeys(p)
    \/ SaveKeys(p)
    \/ GetServerPublic(p)
    \/ WriteClientConfig(p)
    \/ AppendPeer(p)
    \/ ProbeInterface(p)
    \/ AddConf(p)
    \/ ReleaseLock(p)

Next == \E p \in Procs : Step(p)

Spec == Init /\ [][Next]_vars

\* Every external call returns and the scheduler lets every process run:
\* each process that can take a step eventually takes one.  The gateway is
\* initialised and has no peers yet: with server.keys and a usable Address
\* line, or with neither.
LiveInit ==
    /\ Init
    /\ server_conf.exists
    /\ server_conf.private_key
    /\ server_conf.peers = << >>
    /\ (server_keys = NoKey <=> server_conf.network = NoMatch)

FairSpec == LiveInit /\ [][Next]_vars /\ \A p \in Procs : WF_vars(Step(p))

\* Enrollments that may be killed while they hold the lock, on a gateway
\* that is initialised and has no peers. A kill is never bound to happen;
\* a process that is not killed keeps running.
CrashInit ==
    /\ LiveInit
    /\ server_conf.network = Network

CrashNext == Next \/ \E p \in Procs : Crash(p)

CrashSpec ==
    CrashInit /\ [][CrashNext]_vars /\ \A p \in Procs : WF_vars(Step(p))

\* A gateway whose tunnel is a /30: host numbers 1 and 2 only
SmallNetInit ==
    /\ server_conf = [exists |-> TRUE, network |-> Network, mask |-> 30,
                      private_key |-> TRUE, obf |-> NoObf, peers |-> << >>]
    /\ server_keys = Key(0, "server", KeyLen)
    /\ InitRun

SmallNetSpec == SmallNetInit /\ [][Next]_vars

\* The allocator on its own: one invocation, on a configuration of either
\* tunnel prefix whose peer sections carry any host numbers from 0 up, in
\* file order, with or without a peer of another network before them
Networks == {Network, "10.201.0"}

RECURSIVE HostsInOrder(_)
HostsInOrder(S) ==
    IF S = {} THEN << >>
    ELSE LET m == CHOOSE x \in S : \A y \in S : x <= y
         IN  <<m>> \o HostsInOrder(S \ {m})

PeerAt(network, h) ==
    PeerBlock("old", Key(0, "pubkey", KeyLen), Key(0, "genpsk", KeyLen),
              network, h)

AllocInit ==
    /\ \E network \in Networks, used \in SUBSET (0..MaxInitHost),
          other \in BOOLEAN :
          server_conf =
             [exists |-> TRUE, network |-> network, mask |-> 24,
              private_key |-> TRUE, obf |-> NoObf,
              peers |->
                 (IF other THEN <<PeerAt("192.168.7", MaxInitHost + 5)>>
                           ELSE << >>)
                 \o [i \in 1..Cardinality(used) |->
                        PeerAt(network, HostsInOrder(used)[i])]]
    /\ server_keys = Key(0, "server", KeyLen)
    /\ InitRun

AllocNext == Step(1)

AllocSpec == AllocInit /\ [][AllocNext]_vars

\* One invocation on a gateway whose server.conf has, or has not, a line for
\* each of three of the parameters, with a value that is not the default
ObfSample == {"Jc", "H4", "I1"}

ObfInit ==
    /\ \E present \in SUBSET ObfSample :
          server_conf =
             [exists |-> TRUE, network |-> Network, mask |-> 24,
              private_key |-> TRUE,
              obf |-> [n \in present |-> ObfDefault[n] + 1],
              peers |-> << >>]
    /\ server_keys = Key(0, "server", KeyLen)
    /\ InitRun

ObfSpec == ObfInit /\ [][AllocNext]_vars

(* ------------------------------ claims --------------------------------- *)

\* positions between flock(LOCK_EX) and flock(LOCK_UN)
CriticalSection ==
    {"mkdir", "read_conf", "genkeys", "validate", "save_keys",
     "server_public", "write_conf", "append_peer", "probe", "addconf",
     "finally"}

Peers == server_conf.peers
Host(i) == Peers[i].AllowedIPs.host
Released == 1..Len(released)

\* the peer blocks of server.conf written by process p
PeersOf(p) == {i \in 1..Len(Peers) : Peers[i].PublicKey.gen = p}

\* the failures of an external call: a command that fails or prints a key
\* of the wrong length, a file that cannot be written
ExternalFailures == {"CommandFailed", "KeyFormatError", "IOError"}

\* C1: at most one enrollment is between lock acquisition and lock release,
\* so the steps read-config, allocate-address, write-client-storage and
\* append-peer of two enrollments never interleave; the processes in the
\* critical section are exactly the holders of the lock.
C1_MutualExclusion ==
    /\ \A p, q \in Procs :
          (pc[p] \in CriticalSection /\ pc[q] \in CriticalSection) => p = q
    /\ lock = {p \in Procs : pc[p] \in CriticalSection}

\* one enrollment is about to append its peer while another waits in flock
C1_Witness ==
    \E p, q \in Procs : pc[p] = "append_peer" /\ pc[q] = "flock"

\* C2: starting from peer records with pairwise distinct host numbers >= 2,
\* after any interleaving of enrollments, successful or failed, the host
\* numbers of all peer records of server.conf are pairwise distinct and >= 2.
C2_HostNumbersUnique ==
    \A i, j \in 1..Len(Peers) :
       /\ Host(i) >= 2
       /\ (i # j => Host(i) # Host(j))

\* old peers, a failed enrollment that left its peer block, a successful one
C2_Witness ==
    /\ conf0.peers # << >>
    /\ \E i, j \in Released :
          /\ released[i].code # 0 /\ released[i].appended
          /\ released[j].code = 0

\* C3: the host numbers assigned to successful enrollments are strictly
\* increasing in the order the enrollments complete (hence pairwise
\* distinct); when server.conf starts without peer records and no failed
\* enrollment has left a peer block behind, the first one assigned is 2.
C3_AssignedIncreasing ==
    /\ \A i, j \in Released :
          (i < j /\ released[i].code = 0 /\ released[j].code = 0)
             => released[i].host < released[j].host
    /\ \A j \in Released :
          (/\ conf0.peers = << >>
           /\ released[j].code = 0
           /\ \A i \in Released : i < j => ~released[i].appended)
             => released[j].host = 2

\* two successful enrollments into a configuration that had no peers
C3_Witness ==
    /\ conf0.peers = << >>
    /\ Len(released) = 2
    /\ released[1].code = 0 /\ released[1].host = 2
    /\ released[2].code = 0 /\ released[2].host = 3

\* C4: two enrollments for distinct client names, run concurrently with no
\* other enrollment for either name, both end successfully unless an
\* external call fails or server.conf is unusable; and of two successful
\* enrollments that held the lock one after the other, the second is
\* assigned the host number of the first plus one.
C4_ConcurrentPair ==
    /\ \A p, q \in Procs :
          (/\ p # q
           /\ pc[p] = "exited" /\ pc[q] = "exited"
           /\ client_name[p] # client_name[q]
           /\ \A r \in Procs \ {p, q} :
                 client_name[r] \notin {client_name[p], client_name[q]}
           /\ conf0.exists /\ conf0.network # NoMatch
           /\ (conf0.private_key \/ server_keys # NoKey)
           /\ error[p] \notin ExternalFailures
           /\ error[q] \notin ExternalFailures)
             => (exit_code[p] = 0 /\ exit_code[q] = 0)
    /\ \A i, j \in Released :
          (/\ i < j
           /\ released[i].code = 0 /\ released[j].code = 0
           /\ \A k \in Released : (i < k /\ k < j) => ~released[k].appended)
             => released[j].host = released[i].host + 1

\* both succeeded; the one invoked second took the lock first, so the two
\* ran concurrently
C4_Witness ==
    /\ Len(released) = 2
    /\ released[1].proc = 2 /\ released[2].proc = 1
    /\ released[1].code = 0 /\ released[2].code = 0
    /\ client_name[1] # client_name[2]
    /\ released[2].host = released[1].host + 1

\* C5: the enrollment re-verifies under the lock that its client has no
\* storage yet, so of the enrollments for one client name at most one
\* succeeds and at most one peer record for that name is appended.
C5_OnePeerPerName ==
    \A n \in Names :
       /\ Cardinality({i \in 1..Len(Peers) : Peers[i].name = n}) <= 1
       /\ Cardinality({p \in Procs : /\ client_name[p] = n
                                     /\ pc[p] = "exited"
                                     /\ exit_code[p] = 0}) <= 1

\* C6: an enrollment started when clients/<name> exists ends with
\* DuplicateClientError and a non-zero exit status, never takes the lock and
\* appends no peer record: server.conf is as the others left it.
C6_DuplicateRejected ==
    \A p \in Procs :
       dir_at_start[p] =>
          /\ pc[p] \in {"check_client", "exited"}
          /\ pc[p] = "exited" =>
                (error[p] = "DuplicateClientError" /\ exit_code[p] # 0)
          /\ PeersOf(p) = {}
          /\ \A i \in Released : released[i].proc # p

\* an enrollment for a name enrolled before has ended
C6_Witness ==
    \E p \in Procs : dir_at_start[p] /\ pc[p] = "exited"

\* C7: with no server.conf every enrollment ends with NotInitializedError
\* and a non-zero exit status, without taking the lock (or creating the lock
\* file) and without creating client storage.
C7_NotInitialized ==
    ~server_conf.exists =>
       /\ \A p \in Procs :
             /\ pc[p] \in {"start", "exited"}
             /\ pc[p] = "exited" =>
                   (error[p] = "NotInitializedError" /\ exit_code[p] # 0)
       /\ lock = {} /\ released = << >> /\ ~lock_file
       /\ \A n \in Names : clients[n] = NoDir

\* an enrollment into an uninitialised gateway has ended
C7_Witness ==
    ~server_conf.exists /\ \E p \in Procs : pc[p] = "exited"

\* C8: every enrollment that holds the lock eventually releases it, however
\* it ends (the lock is held by one process at a time and freed by its own
\* ReleaseLock only, so a held lock eventually being free says that its
\* holder released it), and every enrollment waiting in flock eventually
\* holds the lock.
C8_LockReleased ==
    /\ (lock # {}) ~> (lock = {})
    /\ \A p \in Procs : (pc[p] = "flock") ~> (p \in lock)

\* an enrollment that failed under the lock has released it, and one that
\* was invoked before it took the lock after it
C8_Witness ==
    /\ Len(released) = 2
    /\ released[1].code # 0 /\ released[1].proc = 2
    /\ released[2].proc = 1
    /\ lock = {}

\* C9: when awg addconf fails the enrollment still ends with exit status 0
\* and no diagnostic, its peer record stays in server.conf, the client
\* bundle stays in clients/<name> and the lock is released; and an exit
\* status of 0 is reached only with the peer record appended and the bundle
\* written, so no other failure is passed over.
C9_LiveFailureNotFatal ==
    \A p \in Procs :
       /\ addconf_rc[p] # 0 =>
             /\ pc[p] \in {"finally", "exited"}
             /\ exit_code[p] = 0 /\ error[p] = "none"
             /\ pc[p] = "exited" => p \notin lock
       /\ (pc[p] \in {"finally", "exited"} /\ exit_code[p] = 0) =>
             /\ PeersOf(p) # {}
             /\ LET dir == clients[client_name[p]]
                IN  /\ dir.exists /\ dir.conf.written
                    /\ dir.privatekey # NoKey
                    /\ dir.publickey # NoKey
                    /\ dir.presharedkey # NoKey

\* an enrollment whose awg addconf failed has ended
C9_Witness ==
    \E p \in Procs : addconf_rc[p] # 0 /\ pc[p] = "exited"

\* C10: a key of the wrong length ends the enrollment with KeyFormatError
\* before it writes a key file, a client configuration or a peer record;
\* the keys of every appended peer record and of every file written to
\* clients/<name> have length 44.
C10_KeyLengths ==
    /\ \A p \in Procs :
          error[p] = "KeyFormatError" =>
             /\ exit_code[p] # 0
             /\ PeersOf(p) = {}
             /\ \A n \in Names :
                   /\ clients[n].privatekey.gen # p
                   /\ clients[n].publickey.gen # p
                   /\ clients[n].presharedkey.gen # p
                   /\ clients[n].conf.Interface.PrivateKey.gen # p
    /\ \A i \in 1..Len(Peers) :
          Peers[i].PublicKey.len = KeyLen /\ Peers[i].PresharedKey.len = KeyLen
    /\ \A n \in Names :
          /\ \A k \in {clients[n].privatekey, clients[n].publickey,
                       clients[n].presharedkey} : k = NoKey \/ k.len = KeyLen
          /\ clients[n].conf.written =>
                /\ clients[n].conf.Interface.PrivateKey.len = KeyLen
                /\ clients[n].conf.Peer.PresharedKey.len = KeyLen

\* an enrollment has ended with KeyFormatError
C10_Witness ==
    \E p \in Procs : error[p] = "KeyFormatError" /\ pc[p] = "exited"

\* the public key, preshared key and address of a [Peer] block, as a reader
\* of the document finds them
PeerFields(block) ==
    [PublicKey |-> block.PublicKey, PresharedKey |-> block.PresharedKey,
     AllowedIPs |-> block.AllowedIPs]

\* the document process p rendered, while p still holds the lock
DocOf(p) == clients[client_name[p]].conf

\* C11 as claimed: the public key, preshared key and address read back from
\* the peer block of the client document an enrollment rendered equal those
\* of the peer record the same enrollment appended to server.conf.
C11_RoundTripClaimed ==
    \A p \in Procs :
       appended[p] =>
          \A i \in PeersOf(p) : PeerFields(DocOf(p).Peer) = PeerFields(Peers[i])

\* C11 as amended: the preshared key of the peer block and the address of
\* the interface block of the rendered document equal the preshared key and
\* address of the appended peer record; the record's public key is the
\* client's, saved as publickey and derived from the document's private key;
\* the public key of the document's peer block is the gateway's.
C11_RoundTrip ==
    \A p \in Procs :
       appended[p] =>
          /\ PeersOf(p) # {}
          /\ \A i \in PeersOf(p) :
                /\ DocOf(p).Peer.PresharedKey = Peers[i].PresharedKey
                /\ DocOf(p).Interface.Address = Peers[i].AllowedIPs
                /\ Peers[i].PublicKey = clients[client_name[p]].publickey
                /\ Peers[i].PublicKey.gen = DocOf(p).Interface.PrivateKey.gen
                /\ Peers[i].PublicKey.kind = "pubkey"
          /\ DocOf(p).Peer.PublicKey = server_public[p]
          /\ DocOf(p).Peer.PublicKey.gen = 0

\* an enrollment has rendered its document, appended its record and is
\* about to end with exit status 0
C11_Witness ==
    \E p \in Procs : appended[p] /\ pc[p] = "finally" /\ exit_code[p] = 0

\* the largest host number of a tunnel with this mask (254 for a /24)
MaxHostOf(mask) == 2 ^ (32 - mask) - 2

\* C12: no peer record with a host number beyond the host range of the
\* tunnel's mask is ever written to server.conf; an enrollment whose computed
\* host number exceeds the range ends with AddressSpaceExhaustedError.
C12_HostsInRange ==
    /\ \A i \in 1..Len(Peers) : Host(i) <= MaxHostOf(server_conf.mask)
    /\ \A p \in Procs :
          (client_ip_num[p] > MaxHostOf(server_conf.mask)) =>
             (pc[p] = "finally" /\ error[p] = "AddressSpaceExhaustedError")

\* C13: after an enrollment that ended in failure nothing of it is visible:
\* no clients/<name> directory or file (the name being used by no other
\* enrollment and not enrolled before) and no peer record of it.
C13_AllOrNothing ==
    \A p \in Procs :
       (/\ pc[p] = "exited" /\ exit_code[p] # 0
        /\ ~dir_at_start[p]
        /\ \A q \in Procs \ {p} : client_name[q] # client_name[p])
          => /\ clients[client_name[p]] = NoDir
             /\ PeersOf(p) = {}

\* the host numbers in use in the configuration process p read: those of
\* the peers whose address lies in the tunnel prefix
UsedBy(p) ==
    {h \in 0..(MaxInitHost + NumProcs + 5) :
        \E i \in 1..Len(conf_read[p].peers) :
           conf_read[p].peers[i].AllowedIPs =
              [network |-> conf_read[p].network, host |-> h]}

\* C14: the address allocated is prefix.n, the prefix that of the Address
\* line, n the least host number >= 2 above every host number in use: 2 when
\* none is in use, max(used) + 1 clamped to 2 otherwise, never a gap below
\* the maximum (used {2} yields 3).
C14_NextAddress ==
    \A p \in Procs :
       client_ip_num[p] # NoIp =>
          LET n == client_ip_num[p]
              used == UsedBy(p)
          IN  /\ vpn_network[p] = conf_read[p].network
              /\ n >= 2
              /\ \A h \in used : h < n
              /\ n = 2 \/ (n - 1) \in used
              /\ used = {} => n = 2
              /\ used = {2} => n = 3

\* host 2 is free and a peer of another network is present, yet the address
\* after the largest one in use is allocated
C14_Witness ==
    \E p \in Procs :
       /\ pc[p] = "genkeys"
       /\ UsedBy(p) = {MaxInitHost}
       /\ Len(conf_read[p].peers) = 2
       /\ client_ip_num[p] = MaxInitHost + 1
       /\ vpn_network[p] = "10.201.0"

\* C15: an enrollment writes nothing to per-client storage before the
\* configuration is loaded and the keys are generated, appends the peer
\* record only after the client bundle is fully persisted, and syncs the live
\* interface only after the peer record is appended.
C15_StrictOrder ==
    \A p \in Procs :
       /\ (/\ pc[p] \in {"read_conf", "genkeys"}
           /\ ~dir_at_start[p]
           /\ \A q \in Procs \ {p} : client_name[q] # client_name[p])
             => clients[client_name[p]] = NoDir
       /\ appended[p] =>
             /\ clients[client_name[p]].conf.written
             /\ clients[client_name[p]].privatekey # NoKey
             /\ clients[client_name[p]].publickey # NoKey
             /\ clients[client_name[p]].presharedkey # NoKey
       /\ pc[p] \in {"probe", "addconf"} => appended[p]

\* the peer blocks appended since the initial state, and the enrollments
\* that have appended one
AppendedBlocks == Len(Peers) - Len(conf0.peers)
Appenders ==
    Cardinality({i \in Released : released[i].appended})
       + Cardinality({p \in Procs : appended[p]})

\* C16: appendPeer is purely additive: the durable configuration is always
\* its initial content followed by the appended peer blocks, one per
\* enrollment that appended; every step leaves the configuration as it is
\* or adds exactly one block at its end, the interface section and all
\* earlier peer records unchanged.
C16_AppendOnly ==
    /\ [](/\ AppendedBlocks >= 0
          /\ [server_conf EXCEPT !.peers = SubSeq(@, 1, Len(conf0.peers))]
                = conf0
          /\ AppendedBlocks = Appenders)
    /\ [][\/ server_conf' = server_conf
          \/ /\ Len(server_conf'.peers) = Len(server_conf.peers) + 1
             /\ [server_conf' EXCEPT
                    !.peers = SubSeq(@, 1, Len(server_conf.peers))]
                   = server_conf
             /\ \E p \in Procs : /\ ~appended[p] /\ appended'[p]
                                 /\ pc[p] = "append_peer"]_vars

\* two enrollments have appended to a configuration that already had peers
C16_Witness ==
    /\ Len(conf0.peers) > 0
    /\ AppendedBlocks = 2
    /\ \A p \in Procs : pc[p] = "exited"

\* C17: when the holder of the lock crashes inside the critical section the
\* lock is free at once, without a step of the crashed process: a dead
\* process never holds it, and whenever enrollments wait in flock there
\* comes a state where none waits any more, a wait ending only with the
\* lock held.
C17_CrashFreesLock ==
    /\ [](\A p \in Procs : pc[p] = "crashed" => p \notin lock)
    /\ (\E p \in Procs : pc[p] = "flock")
          ~> (\A p \in Procs : pc[p] # "flock")
    /\ [][\A p \in Procs :
             (pc[p] = "flock" /\ pc'[p] # "flock") => p \in lock']_vars

\* a process has crashed, and another one, which cannot have held the lock
\* while the first did, holds it now
C17_Witness ==
    \E p \in Procs, q \in Procs :
       /\ pc[p] = "crashed"
       /\ q \in lock
       /\ released = << >>

\* C18: the client configuration document contains every obfuscation
\* parameter of the gateway, with the value of the gateway's configuration
\* or, when the configuration has no line for it, with its default; a
\* missing parameter does not make the enrollment fail.
C18_SameObfuscation ==
    \A p \in Procs :
       /\ (pc[p] = "append_peer") =>
             \A n \in ObfNames :
                /\ n \in DOMAIN DocOf(p).Interface.Obf
                /\ DocOf(p).Interface.Obf[n] =
                      (IF n \in DOMAIN conf_read[p].obf
                       THEN conf_read[p].obf[n] ELSE ObfDefault[n])
       /\ error[p] \notin {"ParseError", "KeyError"}

\* process p took the lock and then failed to parse the configuration, to
\* generate a key or on the length of a key
FailedUnderLock(p) ==
    /\ pc[p] \in {"finally", "exited"}
    /\ error[p] \in {"ParseError", "CommandFailed", "KeyFormatError"}

\* C19: an enrollment that failed after taking the lock leaves clients/<name>
\* behind and has appended no peer record; an enrollment for that name
\* started afterwards finds the directory, and an enrollment that found the
\* directory at its start ends with DuplicateClientError and a non-zero exit
\* status.
C19_FailedNameStaysTaken ==
    /\ [](\A p \in Procs :
             FailedUnderLock(p) =>
                /\ clients[client_name[p]].exists
                /\ PeersOf(p) = {})
    /\ [][\A q \in Procs :
             (/\ pc[q] = "start" /\ pc'[q] # "start"
              /\ \E p \in Procs \ {q} :
                    FailedUnderLock(p) /\ client_name[p] = client_name'[q])
                => dir_at_start'[q]]_vars
    /\ [](\A q \in Procs :
             (dir_at_start[q] /\ pc[q] = "exited") =>
                (error[q] = "DuplicateClientError" /\ exit_code[q] # 0))

\* a name was free, its enrollment failed under the lock, a second enrollment
\* for it was refused, and server.conf has no peer of that name
C19_Witness ==
    \E p \in Procs, q \in Procs :
       /\ p < q
       /\ client_name[q] = client_name[p]
       /\ FailedUnderLock(p) /\ pc[p] = "exited" /\ ~dir_at_start[p]
       /\ pc[q] = "exited" /\ dir_at_start[q]
       /\ error[q] = "DuplicateClientError"
       /\ \A i \in 1..Len(Peers) : Peers[i].name # client_name[p]

====
